---- MODULE Spec2Model ----
(***************************************************************************)
(* Model of gprpy/toolbox/gprIO_DZT.py: readdzt(filename, start_scan,      *)
(* n_scans), the decoder of GSSI .DZT files.                               *)
(*                                                                         *)
(* A file is a finite byte string.  Its first bytes (the fixed header) are *)
(* kept literally; the bytes after them are given by a byte pattern, so    *)
(* that files of realistic size (the data section starts at a multiple of  *)
(* 1024) stay small as states.  Bytes are little-endian, as on the hosts   *)
(* the program runs on (struct's native order, numpy's native dtypes).     *)
(* A 4-byte float is identified with its IEEE-754 bit pattern.             *)
(***************************************************************************)
EXTENDS Integers, Sequences, FiniteSets, TLC

VARIABLES file, start_scan, n_scans, pc, err, fidpos, info, datatype,
          head_offset, start_offset, count, datvec, data

vars == <<file, start_scan, n_scans, pc, err, fidpos, info, datatype,
          head_offset, start_offset, count, datvec, data>>

(***************************************************************************)
(* Program constants and bounds of the model.                              *)
(***************************************************************************)
minheadsize == 1024

MaxNsamp == 2
MaxNchan == 2
MaxScans == 2

NoError == "NoError"

(***************************************************************************)
(* Python values of the two optional arguments: an int, or None.           *)
(***************************************************************************)
PyInt(v) == [kind |-> "int", val |-> v]
PyNone == [kind |-> "NoneType", val |-> 0]

(***************************************************************************)
(* Integer helpers.                                                        *)
(***************************************************************************)
Pow2(n) == 2 ^ n

\* int(a / b) of Python for b > 0: true division, truncated towards zero.
TruncDiv(a, b) == IF a >= 0 THEN a \div b ELSE -((-a) \div b)

(***************************************************************************)
(* Files.                                                                  *)
(***************************************************************************)
PatternByte(pat, p) == (pat.mul * p + pat.add) % 256

ByteAt(f, p) == IF p < Len(f.head) THEN f.head[p + 1] ELSE PatternByte(f.pat, p)

\* fid.read(n) at cursor pos: the next n bytes, fewer at end of file.
read(f, pos, n) ==
    LET avail == IF f.size > pos THEN f.size - pos ELSE 0
        m == IF n < avail THEN n ELSE avail
    IN [i \in 1..m |-> ByteAt(f, pos + i - 1)]

(***************************************************************************)
(* struct: 'h' is a 2-byte signed integer, 'f' a 4-byte float.             *)
(***************************************************************************)
\* Variant: the floats read as 8-byte doubles ('d' for 'f').
calcsizeDouble(fmt) == IF fmt = "h" THEN 2 ELSE 8

calcsize(fmt) == IF fmt = "h" THEN 2 ELSE 4

LittleEndian(bytes) ==
    LET RECURSIVE le(_)
        le(k) == IF k > Len(bytes) THEN 0 ELSE bytes[k] + 256 * le(k + 1)
    IN le(1)

\* Two's complement of a 16-bit word.
Signed16(u) == IF u >= Pow2(15) THEN u - Pow2(16) ELSE u

\* An IEEE-754 single, little-endian: sign bit, 8 exponent bits, 23
\* mantissa bits.
Float(bytes) ==
    [sign |-> bytes[4] \div 128,
     exponent |-> (bytes[4] % 128) * 2 + bytes[3] \div 128,
     mantissa |-> (bytes[3] % 128) * 65536 + bytes[2] * 256 + bytes[1]]

unpack(fmt, bytes) ==
    IF fmt = "h" THEN Signed16(LittleEndian(bytes)) ELSE Float(bytes)

\* The inverse, used to build input files.
pack(fmt, v) ==
    IF fmt = "h"
    THEN <<(v % 65536) % 256, (v % 65536) \div 256>>
    ELSE <<v.mantissa % 256, (v.mantissa \div 256) % 256,
           (v.exponent % 2) * 128 + v.mantissa \div 65536,
           v.sign * 128 + v.exponent \div 2>>

(***************************************************************************)
(* The header: the sequence of struct.unpack(fmt, fid.read(n)) statements. *)
(***************************************************************************)
HeaderFields ==
    << <<"rh_tag", "h">>, <<"rh_data", "h">>, <<"rh_nsamp", "h">>,
       <<"rh_bits", "h">>, <<"rh_zero", "h">>, <<"rhf_sps", "f">>,
       <<"rhf_spm", "f">>, <<"rhf_mpm", "f">>, <<"rhf_position", "f">>,
       <<"rhf_range", "f">>, <<"rh_npass", "h">>, <<"rhb_cdt", "f">>,
       <<"rhb_mdt", "f">>, <<"rh_mapOffset", "h">>, <<"rh_mapSize", "h">>,
       <<"rh_text", "h">>, <<"rh_ntext", "h">>, <<"rh_proc", "h">>,
       <<"rh_nproc", "h">>, <<"rh_nchan", "h">> >>

NumFields == Len(HeaderFields)

\* One statement info[name] = struct.unpack(fmt, fid.read(n))[0].
ReadOne(f, st, k) ==
    LET name == HeaderFields[k][1]
        fmt == HeaderFields[k][2]
        bytes == read(f, st.pos, calcsize(fmt))
    IN IF Len(bytes) < calcsize(fmt)
       THEN [pos |-> st.pos + Len(bytes), info |-> st.info, err |-> "struct.error"]
       ELSE [pos |-> st.pos + Len(bytes),
             info |-> (name :> unpack(fmt, bytes)) @@ st.info,
             err |-> NoError]

RECURSIVE ReadFields(_, _, _)
ReadFields(f, st, k) ==
    IF k > NumFields \/ st.err # NoError THEN st
    ELSE ReadFields(f, ReadOne(f, st, k), k + 1)

\* The whole with block, from the start of the file.
DecodeHeader(f) == ReadFields(f, [pos |-> 0, info |-> <<>>, err |-> NoError], 1)

NumRead == Cardinality(DOMAIN info)


(***************************************************************************)
(* The statements after the header.                                        *)
(***************************************************************************)
\* Variant: the module also imports warnings.
ModuleGlobalsWithWarnings == {"struct", "np", "warnings", "readdzt"}

\* Names bound at module level: the two imports and the function itself.
ModuleGlobals == {"struct", "np", "readdzt"}

\* Variant: a final else that defaults the sample type.
SelectTypeDefaulted(bits) ==
    IF bits = 16 THEN "uint16" ELSE IF bits = 32 THEN "int32" ELSE "uint8"

\* if/elif/elif on rh_bits, without an else: the local stays unbound.
SelectType(bits) ==
    IF bits = 8 THEN "uint8"
    ELSE IF bits = 16 THEN "uint16"
    ELSE IF bits = 32 THEN "int32"
    ELSE "unbound"

itemsize(dtype) ==
    IF dtype = "uint8" THEN 1 ELSE IF dtype = "uint16" THEN 2 ELSE 4

\* Variant: the comparison with minheadsize is <= instead of <.
HeadOffsetInclusive(inf) ==
    IF inf["rh_data"] <= minheadsize
    THEN minheadsize * inf["rh_data"]
    ELSE minheadsize * inf["rh_nchan"]

HeadOffset(inf) ==
    IF inf["rh_data"] < minheadsize
    THEN minheadsize * inf["rh_data"]
    ELSE minheadsize * inf["rh_nchan"]

\* The body of the first try: raises for a start_scan that is no number.
StartRaises(s) == s.kind # "int"

\* Variant: the start is counted in samples, not in bytes.
StartOffsetInSamples(s, inf) == s.val * inf["rh_nchan"] * inf["rh_nsamp"]

StartOffset(s, inf) ==
    TruncDiv(s.val * inf["rh_nchan"] * inf["rh_nsamp"] * inf["rh_bits"], 8)

\* n_scans > 0 raises TypeError for None (outside any try).
CompareRaises(n) == n.kind # "int"

\* The body of the second try, reached with a number greater than zero.
CountRaises(n) == n.kind # "int"

Count(n, inf) ==
    IF n.val > 0 THEN n.val * inf["rh_nsamp"] * inf["rh_nchan"] ELSE -1

(***************************************************************************)
(* numpy.fromfile(filename, dtype, offset, count) on a binary file: seek   *)
(* to offset, then read count items, or all whole items up to the end of   *)
(* the file when count is negative.  A short read is not an error: the     *)
(* array is cut to the items read.  A seek before the start of the file    *)
(* raises OSError; reading "all" from more than one item past the end      *)
(* asks for an array of negative length, which raises ValueError.          *)
(***************************************************************************)
\* Two's complement of a 32-bit word, little-endian.
Int32(bytes) ==
    LET low == bytes[1] + 256 * bytes[2] + 65536 * bytes[3]
               + 16777216 * (bytes[4] % 128)
    IN IF bytes[4] >= 128 THEN (low - 2147483647) - 1 ELSE low

Item(f, dtype, pos) ==
    LET bytes == [i \in 1..itemsize(dtype) |-> ByteAt(f, pos + i - 1)]
    IN IF dtype = "int32" THEN Int32(bytes) ELSE LittleEndian(bytes)

fromfile(f, dtype, offset, cnt) ==
    IF offset < 0 THEN [err |-> "OSError", arr |-> <<>>]
    ELSE LET whole == TruncDiv(f.size - offset, itemsize(dtype))
             num == IF cnt < 0 THEN whole
                    ELSE IF whole < 0 THEN 0
                    ELSE IF cnt < whole THEN cnt ELSE whole
         IN IF num < 0 THEN [err |-> "ValueError", arr |-> <<>>]
            ELSE [err |-> NoError,
                  arr |-> [i \in 1..num |->
                             Item(f, dtype, offset + (i - 1) * itemsize(dtype))]]

\* Variant: the halving applied to the exponent, 2**(bits // 2).
RecentreHalfExponent(bits, v) ==
    IF bits = 8 \/ bits = 16 THEN v - Pow2(bits \div 2) ELSE v

\* datvec.astype(np.int32) - 2**bits // 2, for 8 and 16 bits only.
Recentre(bits, v) ==
    IF bits = 8 \/ bits = 16 THEN v - (Pow2(bits) \div 2) ELSE v

\* Variant: an incomplete last trace is dropped instead of refused.
reshapeTruncating(d, R) ==
    IF R <= 0 THEN [err |-> "ValueError", shape |-> <<0, 0>>, at |-> <<>>]
    ELSE [err |-> NoError,
          shape |-> <<Len(d) \div R, R>>,
          at |-> [i \in 1..(Len(d) \div R) |-> [j \in 1..R |-> d[(i - 1) * R + j]]]]

\* a.reshape(-1, R): rows of R consecutive items; fails unless R > 0
\* divides the size.
reshape(d, R) ==
    IF R <= 0 \/ Len(d) % R # 0 THEN [err |-> "ValueError", shape |-> <<0, 0>>, at |-> <<>>]
    ELSE [err |-> NoError,
          shape |-> <<Len(d) \div R, R>>,
          at |-> [i \in 1..(Len(d) \div R) |-> [j \in 1..R |-> d[(i - 1) * R + j]]]]

\* Variant: the transposition is left out.
TransposeOmitted(m) == m

\* m.T
Transpose(m) ==
    [err |-> m.err,
     shape |-> <<m.shape[2], m.shape[1]>>,
     at |-> [r \in 1..m.shape[2] |-> [c \in 1..m.shape[1] |-> m.at[c][r]]]]

\* The whole call as a function of the file and the two arguments.
readdzt(f, s, n) ==
    LET hdr == DecodeHeader(f)
        inf == hdr.info
        dtype == SelectType(inf["rh_bits"])
        raw == fromfile(f, dtype, HeadOffset(inf) + StartOffset(s, inf), Count(n, inf))
        vec == [i \in 1..Len(raw.arr) |-> Recentre(inf["rh_bits"], raw.arr[i])]
        m == reshape(vec, inf["rh_nsamp"] * inf["rh_nchan"])
    IN IF hdr.err # NoError THEN [err |-> hdr.err, data |-> <<>>, info |-> inf]
       ELSE IF StartRaises(s) /\ "warnings" \notin ModuleGlobals
       THEN [err |-> "NameError", data |-> <<>>, info |-> inf]
       ELSE IF CompareRaises(n) THEN [err |-> "TypeError", data |-> <<>>, info |-> inf]
       ELSE IF dtype = "unbound" THEN [err |-> "UnboundLocalError", data |-> <<>>, info |-> inf]
       ELSE IF raw.err # NoError THEN [err |-> raw.err, data |-> <<>>, info |-> inf]
       ELSE IF m.err # NoError THEN [err |-> m.err, data |-> <<>>, info |-> inf]
       ELSE [err |-> NoError, data |-> Transpose(m), info |-> inf]

NoMatrix == [err |-> NoError, shape |-> <<0, 0>>, at |-> <<>>]

(***************************************************************************)
(* Input files.  A header is written from four control fields; the other   *)
(* sixteen fields get distinct values that depend on their position.       *)
(***************************************************************************)
DataOffsetCodes == {1, 200, minheadsize}
BitWidths == {8, 12, 16, 32}
SampleCounts == 0..MaxNsamp
ChannelCounts == 1..MaxNchan
Patterns == {[mul |-> 0, add |-> 255], [mul |-> 127, add |-> 0]}
Tails == {0, 1}
WriterBlocks == (1..MaxNchan) \cup {200}
TruncatedSizes == {0, 3, 13, 53}
Fills == {1, 2}

Fill(k, fmt, fill) ==
    IF fmt = "h"
    THEN (IF fill = 1 THEN 100 * k + 3 ELSE -(100 * k + 3))
    ELSE [sign |-> fill - 1, exponent |-> 120 + k, mantissa |-> 4194304 + 65793 * k]

FieldValue(k, ctl, fill) ==
    LET name == HeaderFields[k][1]
    IN IF name \in DOMAIN ctl THEN ctl[name] ELSE Fill(k, HeaderFields[k][2], fill)

RECURSIVE HeaderBytes(_, _, _)
HeaderBytes(k, ctl, fill) ==
    IF k > NumFields THEN <<>>
    ELSE pack(HeaderFields[k][2], FieldValue(k, ctl, fill)) \o HeaderBytes(k + 1, ctl, fill)

MkFile(ctl, fill, size, pat) ==
    LET h == HeaderBytes(1, ctl, fill)
    IN [head |-> SubSeq(h, 1, IF size < Len(h) THEN size ELSE Len(h)),
        size |-> size, pat |-> pat]

Controls ==
    [rh_data : DataOffsetCodes, rh_nsamp : SampleCounts,
     rh_bits : BitWidths, rh_nchan : ChannelCounts]

\* A file whose writer put the data section at 1024 * k and appended
\* N scans and a tail of stray bytes.  What lies after the offset the
\* reader resolves is at most MaxScans scans and a tail.
Sizes(ctl) ==
    LET scan == ctl.rh_nsamp * ctl.rh_nchan * (ctl.rh_bits \div 8)
    IN {size \in {minheadsize * k + N * scan + t :
                     k \in WriterBlocks, N \in 0..MaxScans, t \in Tails} :
           size - HeadOffset(ctl) <= MaxScans * scan + 1}

Files ==
    UNION {{MkFile(ctl, 1, size, pat) : size \in Sizes(ctl) \cup {53}, pat \in Patterns} :
              ctl \in Controls}

HeaderTestFiles ==
    UNION {{MkFile(ctl, fill, size, [mul |-> 127, add |-> 0]) :
               size \in TruncatedSizes \cup {54, minheadsize}, fill \in Fills} :
              ctl \in Controls}

StartScans == {PyNone} \cup {PyInt(v) : v \in (-1)..MaxScans}
NScans == {PyNone} \cup {PyInt(v) : v \in (-2)..(MaxScans + 1)}

(***************************************************************************)
(* The state after the call: nothing read, no local bound.                 *)
(***************************************************************************)
Start ==
    /\ pc = "header"
    /\ err = NoError
    /\ fidpos = 0
    /\ info = <<>>
    /\ datatype = "unbound"
    /\ head_offset = 0
    /\ start_offset = 0
    /\ count = 0
    /\ datvec = <<>>
    /\ data = NoMatrix

Init ==
    /\ file \in Files
    /\ start_scan \in StartScans
    /\ n_scans \in NScans
    /\ Start

InitHeader ==
    /\ file \in HeaderTestFiles
    /\ start_scan = PyInt(0)
    /\ n_scans = PyInt(-1)
    /\ Start

(***************************************************************************)
(* Actions.                                                                *)
(***************************************************************************)
\* One struct.unpack(fmt, fid.read(n)) statement of the with block.
ReadField ==
    /\ pc = "header" /\ err = NoError
    /\ LET st == ReadOne(file, [pos |-> fidpos, info |-> info, err |-> err], NumRead + 1)
       IN /\ fidpos' = st.pos
          /\ info' = st.info
          /\ err' = st.err
          /\ pc' = IF st.err = NoError /\ NumRead + 1 = NumFields THEN "dtype" ELSE pc
    /\ UNCHANGED <<file, start_scan, n_scans, datatype, head_offset, start_offset,
                   count, datvec, data>>

\* The whole with block.  The decoding of each input file is tabulated.
HeaderTable == [f \in Files |-> DecodeHeader(f)]

ReadHeader ==
    /\ pc = "header" /\ err = NoError
    /\ LET st == HeaderTable[file]
       IN /\ fidpos' = st.pos
          /\ info' = st.info
          /\ err' = st.err
          /\ pc' = IF st.err = NoError THEN "dtype" ELSE pc
    /\ UNCHANGED <<file, start_scan, n_scans, datatype, head_offset, start_offset,
                   count, datvec, data>>

SelectDatatype ==
    /\ pc = "dtype" /\ err = NoError
    /\ datatype' = SelectType(info["rh_bits"])
    /\ pc' = "offset"
    /\ UNCHANGED <<file, start_scan, n_scans, err, fidpos, info, head_offset,
                   start_offset, count, datvec, data>>

ResolveHeadOffset ==
    /\ pc = "offset" /\ err = NoError
    /\ head_offset' = HeadOffset(info)
    /\ pc' = "start"
    /\ UNCHANGED <<file, start_scan, n_scans, err, fidpos, info, datatype,
                   start_offset, count, datvec, data>>

\* try: start_offset = int(...)  except: warnings.warn(...); start_offset = 0
ComputeStartOffset ==
    /\ pc = "start" /\ err = NoError
    /\ IF ~StartRaises(start_scan)
       THEN start_offset' = StartOffset(start_scan, info) /\ err' = err /\ pc' = "count"
       ELSE IF "warnings" \in ModuleGlobals
       THEN start_offset' = 0 /\ err' = err /\ pc' = "count"
       ELSE start_offset' = start_offset /\ err' = "NameError" /\ pc' = pc
    /\ UNCHANGED <<file, start_scan, n_scans, fidpos, info, datatype, head_offset,
                   count, datvec, data>>

\* if n_scans > 0: try: count = int(...) except: ...; count = -1  else: count = -1
ComputeCount ==
    /\ pc = "count" /\ err = NoError
    /\ IF CompareRaises(n_scans)
       THEN count' = count /\ err' = "TypeError" /\ pc' = pc
       ELSE IF ~CountRaises(n_scans)
       THEN count' = Count(n_scans, info) /\ err' = err /\ pc' = "read"
       ELSE IF "warnings" \in ModuleGlobals
       THEN count' = -1 /\ err' = err /\ pc' = "read"
       ELSE count' = count /\ err' = "NameError" /\ pc' = pc
    /\ UNCHANGED <<file, start_scan, n_scans, fidpos, info, datatype, head_offset,
                   start_offset, datvec, data>>

\* datvec = np.fromfile(filename, dtype=datatype, offset=..., count=count)
ReadData ==
    /\ pc = "read" /\ err = NoError
    /\ IF datatype = "unbound"
       THEN datvec' = datvec /\ err' = "UnboundLocalError" /\ pc' = pc
       ELSE LET r == fromfile(file, datatype, head_offset + start_offset, count)
            IN /\ datvec' = r.arr
               /\ err' = r.err
               /\ pc' = IF r.err = NoError THEN "recentre" ELSE pc
    /\ UNCHANGED <<file, start_scan, n_scans, fidpos, info, datatype, head_offset,
                   start_offset, count, data>>

RecentreData ==
    /\ pc = "recentre" /\ err = NoError
    /\ datvec' = [i \in 1..Len(datvec) |-> Recentre(info["rh_bits"], datvec[i])]
    /\ pc' = "reshape"
    /\ UNCHANGED <<file, start_scan, n_scans, err, fidpos, info, datatype,
                   head_offset, start_offset, count, data>>

\* data = datvec.reshape(-1, rh_nsamp * rh_nchan).T ; return data, info
ReshapeData ==
    /\ pc = "reshape" /\ err = NoError
    /\ LET m == reshape(datvec, info["rh_nsamp"] * info["rh_nchan"])
       IN IF m.err = NoError
          THEN data' = Transpose(m) /\ err' = err /\ pc' = "return"
          ELSE data' = data /\ err' = m.err /\ pc' = pc
    /\ UNCHANGED <<file, start_scan, n_scans, fidpos, info, datatype, head_offset,
                   start_offset, count, datvec>>

Next ==
    \/ ReadHeader
    \/ SelectDatatype
    \/ ResolveHeadOffset
    \/ ComputeStartOffset
    \/ ComputeCount
    \/ ReadData
    \/ RecentreData
    \/ ReshapeData

Spec == Init /\ [][Next]_vars

NextHeader == ReadField

SpecHeader == InitHeader /\ [][NextHeader]_vars

(***************************************************************************)
(* Properties.                                                             *)
(***************************************************************************)
AfterOffset == pc \in {"start", "count", "read", "recentre", "reshape", "return"}
AfterStart == pc \in {"count", "read", "recentre", "reshape", "return"}
AfterCount == pc \in {"read", "recentre", "reshape", "return"}
AfterRead == pc \in {"recentre", "reshape", "return"}
AfterRecentre == pc \in {"reshape", "return"}

TraceLen == info["rh_nsamp"] * info["rh_nchan"]

\* The i-th sample as stored in the file from head_offset + start_offset on.
Raw(i) == Item(file, datatype, head_offset + start_offset + (i - 1) * itemsize(datatype))

\* C1: head_offset is 1024 * rh_data when rh_data < 1024 and 1024 * rh_nchan
\* otherwise, whatever the other header fields, start_scan and n_scans are.
C1_HeadOffset ==
    AfterOffset =>
        head_offset = IF info["rh_data"] < 1024
                      THEN 1024 * info["rh_data"]
                      ELSE 1024 * info["rh_nchan"]

C1_Witness ==
    /\ pc = "return"
    /\ info["rh_data"] = 1024 /\ info["rh_nchan"] = 2 /\ head_offset = 2048
    /\ start_scan.val = 1 /\ n_scans.val = 1

\* C2: after the recentring every 8-bit sample v in 0..255 has become
\* v - 128, every 16-bit sample v in 0..65535 has become v - 32768, both in
\* [-2^(n-1), 2^(n-1)), and every 32-bit sample is unchanged.
C2_Recentre ==
    AfterRecentre =>
        \A i \in 1..Len(datvec) :
            /\ info["rh_bits"] = 8 =>
                   Raw(i) \in 0..255 /\ datvec[i] = Raw(i) - 128 /\ datvec[i] \in (-128)..127
            /\ info["rh_bits"] = 16 =>
                   Raw(i) \in 0..65535 /\ datvec[i] = Raw(i) - 32768
                   /\ datvec[i] \in (-32768)..32767
            /\ info["rh_bits"] = 32 => datvec[i] = Raw(i)

C2_Witness ==
    /\ pc = "return" /\ info["rh_bits"] = 16
    /\ \E i \in 1..Len(datvec) : Raw(i) = 65535 /\ datvec[i] = 32767

\* A file whose header is valid and whose data section, from the resolved
\* head offset to the end, holds whole scans only.
ScanBytes == TraceLen * (info["rh_bits"] \div 8)

WellFormed ==
    /\ info["rh_bits"] \in {8, 16, 32}
    /\ info["rh_nsamp"] > 0 /\ info["rh_nchan"] >= 1
    /\ HeadOffset(info) >= 0 /\ file.size >= HeadOffset(info)
    /\ (file.size - HeadOffset(info)) % ScanBytes = 0

WholeScans == (file.size - HeadOffset(info)) \div ScanBytes

InWindow ==
    /\ pc # "header"
    /\ start_scan.kind = "int" /\ n_scans.kind = "int"
    /\ WellFormed
    /\ start_scan.val >= 0 /\ n_scans.val > 0
    /\ start_scan.val + n_scans.val <= WholeScans

\* The full decode (start_scan = 0, n_scans = -1) of each input file.
FullDecodeTable == [f \in Files |-> readdzt(f, PyInt(0), PyInt(-1))]

FullDecode == FullDecodeTable[file]

\* C3: on a well-formed file of N whole scans, a call with start_scan = s >= 0
\* and n_scans = n > 0, s + n <= N, does not fail and returns exactly n
\* columns, column i being column s + i of the full decode of the same file.
C3_ScanWindow ==
    InWindow =>
        /\ err = NoError
        /\ pc = "return" =>
              /\ FullDecode.err = NoError
              /\ data.shape = <<TraceLen, n_scans.val>>
              /\ \A i \in 1..n_scans.val : \A r \in 1..TraceLen :
                     data.at[r][i] = FullDecode.data.at[r][start_scan.val + i]

C3_Witness ==
    /\ InWindow /\ pc = "return"
    /\ start_scan.val = 1 /\ n_scans.val = 1 /\ WholeScans = 2
    /\ info["rh_bits"] = 16 /\ TraceLen = 2
    /\ FullDecode.data.at[1][1] # FullDecode.data.at[1][2]

\* The reshape has been executed: it has returned or it has raised.
Reshaped == pc = "return" \/ (pc = "reshape" /\ err # NoError)

\* C4: with T decoded samples and rh_nsamp * rh_nchan = R > 0, the call
\* returns a matrix of R rows and T / R columns when R divides T, and fails
\* without a matrix when it does not.
C4_Reshape ==
    (Reshaped /\ TraceLen > 0) =>
        IF Len(datvec) % TraceLen = 0
        THEN pc = "return" /\ data.shape = <<TraceLen, Len(datvec) \div TraceLen>>
        ELSE err = "ValueError" /\ data = NoMatrix

C4_Witness ==
    /\ pc = "reshape" /\ err = "ValueError"
    /\ TraceLen = 2 /\ Len(datvec) = 3

\* C5: a start offset or a read length beyond the end of the file makes the
\* call fail: it never returns when the start offset is past the end, and
\* never returns fewer columns than the n_scans > 0 asked for.
C5_NoSilentClamp ==
    pc = "return" =>
        /\ head_offset + start_offset <= file.size
        /\ n_scans.val > 0 => data.shape[2] = n_scans.val

\* C6: everything up to the end of the file is read (count = -1) only when
\* n_scans is the sentinel -1, not when it is 0 or another negative number.
C6_ReadAllOnlySentinel ==
    (AfterCount /\ count = -1) => n_scans = PyInt(-1)

\* C7: when rh_bits is none of 8, 16, 32 no sample type is bound, no sample
\* is read and no matrix is made: the call stops with an error at the read
\* at the latest, whatever start_scan and n_scans are.
C7_BadBitsFail ==
    (pc # "header" /\ info["rh_bits"] \notin {8, 16, 32}) =>
        /\ datatype = "unbound"
        /\ ~AfterRead
        /\ datvec = <<>> /\ data = NoMatrix
        /\ pc = "read" => err \in {NoError, "UnboundLocalError"}

C7_Witness ==
    /\ pc = "read" /\ err = "UnboundLocalError" /\ info["rh_bits"] = 12
    /\ start_scan.val = 1 /\ n_scans.val = 2

\* C9: the returned matrix M has R = rh_nsamp * rh_nchan rows and holds the
\* flat recentred samples d, read from head_offset + start_offset on, one
\* trace per column: M[r][c] = d[c * R + r].
C9_Orientation ==
    pc = "return" =>
        /\ data.shape = <<TraceLen, Len(datvec) \div TraceLen>>
        /\ \A r \in 0..(TraceLen - 1) : \A c \in 0..((Len(datvec) \div TraceLen) - 1) :
               /\ data.at[r + 1][c + 1] = datvec[c * TraceLen + r + 1]
               /\ datvec[c * TraceLen + r + 1] =
                      Recentre(info["rh_bits"], Raw(c * TraceLen + r + 1))

C9_Witness ==
    /\ pc = "return" /\ TraceLen = 2 /\ Len(datvec) = 6
    /\ data.shape = <<2, 3>>
    /\ data.at[2][1] = datvec[2] /\ data.at[1][2] = datvec[3]
    /\ datvec[2] # datvec[3]

DocOffsets ==
    <<0, 2, 4, 6, 8, 10, 14, 18, 22, 26, 30, 32, 36, 40, 42, 44, 46, 48, 50, 52, 54>>

DocFloats == {10, 14, 18, 22, 26, 32, 36}

DocFormat(k) == IF DocOffsets[k] \in DocFloats THEN "f" ELSE "h"

\* C8: the header is decoded by twenty sequential reads; the cursor is at
\* offset 0, 2, 4, 6, 8, 10, 14, 18, 22, 26, 30, 32, 36, 40, 42, 44, 46, 48,
\* 50, 52 before them and at 54 after the last; floats are read at 10, 14,
\* 18, 22, 26, 32, 36 and 2-byte integers elsewhere; every field of the
\* mapping encodes to exactly the bytes stored at its offset.
C8_HeaderLayout ==
    /\ NumRead <= 20
    /\ DOMAIN info = {HeaderFields[k][1] : k \in 1..NumRead}
    /\ (pc = "header" /\ err = NoError) => (NumRead < 20 /\ fidpos = DocOffsets[NumRead + 1])
    /\ pc # "header" => (NumRead = 20 /\ fidpos = 54)
    /\ \A k \in 1..NumRead :
           /\ HeaderFields[k][2] = DocFormat(k)
           /\ \A j \in 1..(DocOffsets[k + 1] - DocOffsets[k]) :
                  pack(DocFormat(k), info[HeaderFields[k][1]])[j]
                      = ByteAt(file, DocOffsets[k] + j - 1)
    /\ NumRead >= 3 => info["rh_nsamp"] = Signed16(ByteAt(file, 4) + 256 * ByteAt(file, 5))
    /\ NumRead >= 4 => info["rh_bits"] = Signed16(ByteAt(file, 6) + 256 * ByteAt(file, 7))
    /\ NumRead >= 2 => info["rh_data"] = Signed16(ByteAt(file, 2) + 256 * ByteAt(file, 3))
    /\ NumRead = 20 => info["rh_nchan"] = Signed16(ByteAt(file, 52) + 256 * ByteAt(file, 53))

C8_Witness ==
    /\ pc = "dtype" /\ NumRead = 20 /\ fidpos = 54
    /\ info["rh_nchan"] = 2 /\ info["rh_nsamp"] = 2 /\ info["rh_bits"] = 16
    /\ info["rh_npass"] = -1103 /\ info["rhf_sps"].exponent = 126

====
